---- MODULE Spec2Model ----
(***************************************************************************)
(* A model of joblib's persistent memoization store (joblib/store.py) and  *)
(* of the memoizing wrapper that drives it (joblib/memory.py).             *)
(*                                                                         *)
(* One function identity f is cached in one backing store, which is either *)
(* a DiskStore (a directory tree) or a MongoDBStore (a GridFS bucket of    *)
(* versioned files).  Several processes share the store; each holds its    *)
(* own version of f's source.  Every store method is one atomic action,    *)
(* except in SpecRace and SpecRecord, which take one store access per step. *)
(*                                                                         *)
(* Python strings that are split/joined on "\n" are modelled as the        *)
(* non-empty sequence of their newline-free pieces: s.split('\n').         *)
(***************************************************************************)
EXTENDS Integers, Sequences, FiniteSets, TLC

VARIABLES
    backend,   \* "disk" or "mongodb": the class store_from_scheme selected
    json,      \* TRUE iff the json module could be imported
    store,     \* the backing store's content (a directory tree or a GridFS)
               \* (SpecMulti: the content under each function's directory
               \* or collection)
    src,       \* src[p]: the version of f's source that process p runs
               \* (SpecMulti: src[fn], the current source of function fn)
    last,      \* the most recent call: who, what, its outcome and warnings
    hist,      \* the calls of a recorded run, oldest first
    cfg,       \* a scheme handed to store_from_scheme and what became of it
    pc,        \* pc[p]: how far process p is in a call that takes several steps
    txt        \* a source text and first line, framed, persisted and decoded

vars == <<backend, json, store, src, last, hist, cfg, pc, txt>>

\* the parts of the state that only SpecScheme, SpecWrap, SpecRace and
\* SpecFraming use
rest == <<cfg, pc, txt>>

-----------------------------------------------------------------------------
(* Bounds and input sets *)

MaxVersions == 2        \* GridFS versions kept per file name
MaxTrace == 6           \* calls of a recorded run
MaxClearTrace == 5      \* calls of a recorded run that may clear the cache
MaxTextLen == 3         \* characters of a source text that is framed

Procs == {"p1", "p2"}
Args == {"A", "B"}      \* argument tuples of f
Values == {"v1", "v2"}  \* results handed to set

NoFile == <<>>          \* a text file that does not exist (no pieces at all)
Absent == "<absent>"    \* a pickle or summary file that does not exist
Truncated == "<empty>"  \* a file opened for writing and not yet written

-----------------------------------------------------------------------------
(* Source versions of f.  get_func_code reads the function's block out of  *)
(* its source file; a version is the file, the block's first line and its  *)
(* number of lines (first_line -1: the source is not available and the     *)
(* code text is an opaque repr).                                           *)

SrcA == [file |-> <<"def f():", "  return a">>, exists |-> TRUE,
         first_line |-> 1, nlines |-> 2, repr |-> ""]
SrcB == [file |-> <<"def f():", "  return b">>, exists |-> TRUE,
         first_line |-> 1, nlines |-> 2, repr |-> ""]
\* a second definition of f appended to SrcA's file: f now names that block
SrcDup == [file |-> <<"def f():", "  return a", "def f():", "  return b">>,
           exists |-> TRUE, first_line |-> 3, nlines |-> 2, repr |-> ""]

Sources == {SrcA, SrcB, SrcDup}

FirstLines == {-1, 1, 2, 3}

\* func_inspect.get_func_code(func): (func_code, source_file, first_line)
get_func_code(S) ==
    [func_code |-> IF S.first_line = -1
                   THEN <<S.repr>>
                   ELSE SubSeq(S.file, S.first_line,
                               S.first_line + S.nlines - 1) \o <<"">>,
     source_file |-> S,
     first_line |-> S.first_line]

\* hashing.hash(filter_args(func, ignore, *args, **kwargs)): one key per
\* argument tuple, distinct tuples giving distinct keys
hash(a) == CASE a = "A" -> "hA" [] a = "B" -> "hB"

Hashes == {hash(a) : a \in Args}

-----------------------------------------------------------------------------
(* The SourceRecord framing *)

FIRST_LINE_TEXT(n) ==
    CASE n = -1 -> "# first line: -1"
      [] n = 1 -> "# first line: 1"
      [] n = 2 -> "# first line: 2"
      [] n = 3 -> "# first line: 3"

startswith_FIRST_LINE_TEXT(piece) ==
    \E n \in FirstLines : piece = FIRST_LINE_TEXT(n)

\* int(func_code[0][len(FIRST_LINE_TEXT):])
int_after_prefix(piece) ==
    CHOOSE n \in FirstLines : piece = FIRST_LINE_TEXT(n)

\* '%s %i\n%s' % (FIRST_LINE_TEXT, first_line, func_code)
frame_func_code(func_code, first_line) ==
    <<FIRST_LINE_TEXT(first_line)>> \o func_code

extract_first_line(func_code) ==
    IF startswith_FIRST_LINE_TEXT(func_code[1])
    THEN [func_code |-> Tail(func_code),
          first_line |-> int_after_prefix(func_code[1])]
    ELSE [func_code |-> func_code, first_line |-> -1]

-----------------------------------------------------------------------------
(* Python helpers used by the identity check *)

\* seq[start:stop] with Python's 0-based, clamped, negative-from-the-end indices
PySlice(seq, start, stop) ==
    LET n == Len(seq)
        norm(i) == IF i < 0 THEN (IF i + n < 0 THEN 0 ELSE i + n)
                   ELSE (IF i > n THEN n ELSE i)
        lo == norm(start)
        hi == norm(stop)
    IN  IF lo >= hi THEN <<>> ELSE SubSeq(seq, lo + 1, hi)

\* ''.join(lines) of newline-terminated lines, as pieces
join_lines(lines) == lines \o <<"">>

\* str.rstrip(): trailing newlines (empty trailing pieces) removed
RECURSIVE rstrip(_)
rstrip(pieces) ==
    IF Len(pieces) > 1 /\ pieces[Len(pieces)] = ""
    THEN rstrip(SubSeq(pieces, 1, Len(pieces) - 1))
    ELSE pieces

WARN_CANNOT_DETECT == "JobLibCollisionWarning: Cannot detect name collisions"
WARN_POSSIBLE == "JobLibCollisionWarning: Possible name collisions"
WARN_CLEARING == "Clearing cache"

-----------------------------------------------------------------------------
(* DiskStore: the directory tree under cachedir/joblib.                    *)
(*   func_dir   whether f's directory exists                               *)
(*   func_code  the pieces of func_code.py, or NoFile                      *)
(*   out[h]     the output directory of hash h: whether it exists, the     *)
(*              value pickled in output.pkl and the content of             *)
(*              input_args.json (each Absent when the file is missing)     *)

NoOutput == [dir |-> FALSE, pkl |-> Absent, json |-> Absent]

DiskStore_init ==
    [func_dir |-> FALSE, func_code |-> NoFile, out |-> [h \in Hashes |-> NoOutput]]

\* the tree after _get_func_dir(mkdir)
DiskStore_get_func_dir(st, mkdir) ==
    IF mkdir THEN [st EXCEPT !.func_dir = TRUE] ELSE st

\* the tree after get_output_dir: it calls _get_func_dir(self.func), and the
\* function object passed as mkdir is true
DiskStore_get_output_dir(st) == DiskStore_get_func_dir(st, TRUE)

\* disk.mkdirp(output_dir): os.makedirs, an existing directory is no error
mkdirp_output_dir(st, h) ==
    [st EXCEPT !.func_dir = TRUE, !.out[h].dir = TRUE]

\* fault: "none"; "OSError", raised by mkdirp; "IOError", raised by the dump
\* once the directory is there
DiskStore_persist_output(st, h, v, fault) ==
    CASE fault = "none" ->
            [st |-> [mkdirp_output_dir(st, h) EXCEPT !.out[h].pkl = v],
             exc |-> "none"]
      [] fault = "OSError" -> [st |-> st, exc |-> "none"]
      [] fault = "IOError" -> [st |-> mkdirp_output_dir(st, h), exc |-> "IOError"]

\* fault: "none", or "error": the summary file cannot be written
DiskStore_persist_input(st, h, a, fault) ==
    IF json
    THEN IF fault = "none"
         THEN [mkdirp_output_dir(st, h) EXCEPT !.out[h].json = a]
         ELSE mkdirp_output_dir(st, h)
    ELSE st

\* mutant: a missing output.pkl loads as None
DiskStore_load_output_none(st, h) ==
    IF st.out[h].pkl = Absent
    THEN [ret |-> "None", exc |-> "none"]
    ELSE [ret |-> st.out[h].pkl, exc |-> "none"]

DiskStore_load_output(st, h) ==
    IF st.out[h].pkl = Absent
    THEN [ret |-> "-", exc |-> "IOError"]
    ELSE IF st.out[h].pkl = Truncated
    THEN [ret |-> "-", exc |-> "EOFError"]
    ELSE [ret |-> st.out[h].pkl, exc |-> "none"]

DiskStore_get(st, a) ==
    LET st1 == DiskStore_get_output_dir(st)
        r == DiskStore_load_output(st1, hash(a))
    IN  [st |-> st1, ret |-> r.ret, exc |-> r.exc]

\* mutant: set also removes func_code.py
DiskStore_set_drops_record(st, v, a, pfault, sfault) ==
    LET st1 == DiskStore_get_output_dir(st)
        r == DiskStore_persist_output(st1, hash(a), v, pfault)
    IN  [st |-> [DiskStore_persist_input(r.st, hash(a), a, sfault)
                    EXCEPT !.func_code = NoFile],
         ret |-> "None", exc |-> "none"]

DiskStore_set(st, v, a, pfault, sfault) ==
    LET st1 == DiskStore_get_output_dir(st)
        r == DiskStore_persist_output(st1, hash(a), v, pfault)
    IN  IF r.exc # "none"
        THEN [st |-> r.st, ret |-> "-", exc |-> r.exc]
        ELSE [st |-> DiskStore_persist_input(r.st, hash(a), a, sfault),
              ret |-> "None", exc |-> "none"]

\* mutant: only the summary is removed, output.pkl and the directory stay
DiskStore_delete_keeps_output(st, a) ==
    LET st1 == DiskStore_get_output_dir(st)
    IN  [st |-> [st1 EXCEPT !.out[hash(a)].json = Absent],
         ret |-> "None", exc |-> "none"]

\* shutil.rmtree(output_dir, ignore_errors=True)
DiskStore_delete(st, a) ==
    LET st1 == DiskStore_get_output_dir(st)
    IN  [st |-> [st1 EXCEPT !.out[hash(a)] = NoOutput],
         ret |-> "None", exc |-> "none"]

DiskStore_get_func_code(st) ==
    LET st1 == DiskStore_get_func_dir(st, TRUE)
    IN  IF st1.func_code = NoFile
        THEN [st |-> st1, found |-> FALSE, func_code |-> <<"">>, first_line |-> -1]
        ELSE [st |-> st1, found |-> TRUE,
              func_code |-> extract_first_line(st1.func_code).func_code,
              first_line |-> extract_first_line(st1.func_code).first_line]

DiskStore_save_func_code(st, func_code, first_line) ==
    [DiskStore_get_func_dir(st, TRUE)
        EXCEPT !.func_code = frame_func_code(func_code, first_line)]

\* mutant: the record is rewritten but the directory is not removed first
DiskStore_clear_keeps_entries(st, S) ==
    LET code == get_func_code(S)
    IN  [st |-> DiskStore_save_func_code(st, code.func_code, code.first_line),
         diags |-> <<>>]

\* clear(warn): the warning is commented out in the source, so none is issued
DiskStore_clear(st, S) ==
    LET st1 == DiskStore_get_func_dir(st, FALSE)
        st2 == IF st1.func_dir THEN DiskStore_init ELSE st1
        st3 == [st2 EXCEPT !.func_dir = TRUE]
        code == get_func_code(S)
    IN  [st |-> DiskStore_save_func_code(st3, code.func_code, code.first_line),
         diags |-> <<>>]

-----------------------------------------------------------------------------
(* MongoDBStore: the GridFS bucket of f's collection.  Each file name      *)
(* holds its versions, oldest first: put appends one, get_last_version     *)
(* reads the last, delete removes the version it is handed.                *)
(*   code     versions of <module>/<name>/func_code.py                     *)
(*   pkl[h]   versions of <module>/<name>/<h>/output.pkl                   *)
(*   json[h]  versions of <module>/<name>/<h>/input_args.json              *)

MongoDBStore_init ==
    [code |-> <<>>, pkl |-> [h \in Hashes |-> <<>>], json |-> [h \in Hashes |-> <<>>]]

fs_put(versions, data) == Append(versions, data)
fs_exists(versions) == Len(versions) > 0
fs_get_last_version(versions) == versions[Len(versions)]
fs_delete_last_version(versions) == SubSeq(versions, 1, Len(versions) - 1)

\* mutant: the oldest version is read instead of the last
MongoDBStore_get_first_version(st, a) ==
    IF fs_exists(st.pkl[hash(a)])
    THEN [st |-> st, ret |-> st.pkl[hash(a)][1], exc |-> "none"]
    ELSE [st |-> st, ret |-> "-", exc |-> "NoFile"]

MongoDBStore_get(st, a) ==
    IF fs_exists(st.pkl[hash(a)])
    THEN [st |-> st, ret |-> fs_get_last_version(st.pkl[hash(a)]), exc |-> "none"]
    ELSE [st |-> st, ret |-> "-", exc |-> "NoFile"]

\* mutant: the payload is put under the file name of every argument hash
MongoDBStore_set_every_key(st, v, a, pfault, sfault) ==
    [st |-> [st EXCEPT !.pkl = [h \in Hashes |-> fs_put(st.pkl[h], v)]],
     ret |-> "None", exc |-> "none"]

\* pfault "IOError": the put of the payload fails; sfault "error": the put of
\* the summary fails
MongoDBStore_set(st, v, a, pfault, sfault) ==
    IF pfault # "none"
    THEN [st |-> st, ret |-> "-", exc |-> "IOError"]
    ELSE LET st1 == [st EXCEPT !.pkl[hash(a)] = fs_put(@, v)]
         IN  [st |-> IF json /\ sfault = "none"
                     THEN [st1 EXCEPT !.json[hash(a)] = fs_put(@, a)]
                     ELSE st1,
              ret |-> "None", exc |-> "none"]

\* mutant: every version of the entry's files is removed
MongoDBStore_delete_all_versions(st, a) ==
    IF ~fs_exists(st.pkl[hash(a)])
    THEN [st |-> st, ret |-> "-", exc |-> "NoFile"]
    ELSE [st |-> [st EXCEPT !.pkl[hash(a)] = <<>>, !.json[hash(a)] = <<>>],
          ret |-> "None", exc |-> "none"]

MongoDBStore_delete(st, a) ==
    IF ~fs_exists(st.pkl[hash(a)])
    THEN [st |-> st, ret |-> "-", exc |-> "NoFile"]
    ELSE LET st1 == [st EXCEPT !.pkl[hash(a)] = fs_delete_last_version(@)]
         IN  IF ~fs_exists(st1.json[hash(a)])
             THEN [st |-> st1, ret |-> "-", exc |-> "NoFile"]
             ELSE [st |-> [st1 EXCEPT !.json[hash(a)] = fs_delete_last_version(@)],
                   ret |-> "None", exc |-> "none"]

MongoDBStore_get_func_code(st) ==
    IF ~fs_exists(st.code)
    THEN [st |-> st, found |-> FALSE, func_code |-> <<"">>, first_line |-> -1]
    ELSE [st |-> st, found |-> TRUE,
          func_code |-> extract_first_line(fs_get_last_version(st.code)).func_code,
          first_line |-> extract_first_line(fs_get_last_version(st.code)).first_line]

MongoDBStore_save_func_code(st, func_code, first_line) ==
    [st EXCEPT !.code = fs_put(@, frame_func_code(func_code, first_line))]

\* mutant: the collections are dropped and no record is written
MongoDBStore_clear_drops_record(st, S) ==
    [st |-> MongoDBStore_init, diags |-> <<>>]

\* files.drop(); chunks.drop(); then the record is written again
MongoDBStore_clear(st, S) ==
    LET code == get_func_code(S)
    IN  [st |-> MongoDBStore_save_func_code(MongoDBStore_init,
                                            code.func_code, code.first_line),
         diags |-> <<>>]

-----------------------------------------------------------------------------
(* Store: the methods of the selected backend, and the identity check      *)

Store_init(b) == IF b = "disk" THEN DiskStore_init ELSE MongoDBStore_init

Store_get_func_code(st) ==
    IF backend = "disk" THEN DiskStore_get_func_code(st)
    ELSE MongoDBStore_get_func_code(st)

Store_save_func_code(st, func_code, first_line) ==
    IF backend = "disk" THEN DiskStore_save_func_code(st, func_code, first_line)
    ELSE MongoDBStore_save_func_code(st, func_code, first_line)

Store_clear(st, S) ==
    IF backend = "disk" THEN DiskStore_clear(st, S) ELSE MongoDBStore_clear(st, S)

Store_get(st, a) ==
    IF backend = "disk" THEN DiskStore_get(st, a) ELSE MongoDBStore_get(st, a)

Store_set(st, v, a, pfault, sfault) ==
    IF backend = "disk" THEN DiskStore_set(st, v, a, pfault, sfault)
    ELSE MongoDBStore_set(st, v, a, pfault, sfault)

Store_delete(st, a) ==
    IF backend = "disk" THEN DiskStore_delete(st, a) ELSE MongoDBStore_delete(st, a)

\* the warning of the first-line comparison, if any
collision_check(S, cur, old) ==
    IF old.first_line # cur.first_line /\ S.exists
    THEN LET num_lines == Len(cur.func_code)
             on_disk_func_code ==
                 join_lines(PySlice(S.file, old.first_line - 1,
                                    old.first_line - 1 + num_lines - 1))
         IN  IF rstrip(on_disk_func_code) = rstrip(old.func_code)
             THEN <<WARN_POSSIBLE>> ELSE <<>>
    ELSE <<>>

\* mutant: the first observation reports a match
_is_same_func_baseline_match(st, S) ==
    LET cur == get_func_code(S)
        old == Store_get_func_code(st)
    IN  IF ~old.found
        THEN [st |-> Store_save_func_code(old.st, cur.func_code, cur.first_line),
              same |-> TRUE, check |-> "baseline", diags |-> <<>>]
        ELSE IF old.func_code = cur.func_code
        THEN [st |-> old.st, same |-> TRUE, check |-> "unchanged", diags |-> <<>>]
        ELSE [st |-> Store_clear(old.st, S).st, same |-> FALSE,
              check |-> "changed", diags |-> <<>>]

\* mutant: the ambiguous-identity warning is issued for every changed text
_is_same_func_always_ambiguous(st, S) ==
    LET cur == get_func_code(S)
        old == Store_get_func_code(st)
    IN  IF ~old.found
        THEN [st |-> Store_save_func_code(old.st, cur.func_code, cur.first_line),
              same |-> FALSE, check |-> "baseline", diags |-> <<>>]
        ELSE IF old.func_code = cur.func_code
        THEN [st |-> old.st, same |-> TRUE, check |-> "unchanged", diags |-> <<>>]
        ELSE LET d1 == <<WARN_CANNOT_DETECT>>
                 d2 == collision_check(S, cur, old)
                 c == Store_clear(old.st, S)
             IN  [st |-> c.st, same |-> FALSE, check |-> "changed",
                  diags |-> d1 \o d2 \o c.diags]

\* mutant: a record with the same text and another first line counts as a
\* change
_is_same_func_line_sensitive(st, S) ==
    LET cur == get_func_code(S)
        old == Store_get_func_code(st)
    IN  IF ~old.found
        THEN [st |-> Store_save_func_code(old.st, cur.func_code, cur.first_line),
              same |-> FALSE, check |-> "baseline", diags |-> <<>>]
        ELSE IF old.func_code = cur.func_code /\ old.first_line = cur.first_line
        THEN [st |-> old.st, same |-> TRUE, check |-> "unchanged", diags |-> <<>>]
        ELSE LET d1 == IF old.first_line = cur.first_line /\ cur.first_line = -1
                       THEN <<WARN_CANNOT_DETECT>> ELSE <<>>
                 d2 == collision_check(S, cur, old)
                 c == Store_clear(old.st, S)
             IN  [st |-> c.st, same |-> FALSE, check |-> "changed",
                  diags |-> d1 \o d2 \o c.diags]

\* mutant: the ambiguous-identity warning is issued as soon as one of the two
\* first lines is unknown
_is_same_func_warns_either_unknown(st, S) ==
    LET cur == get_func_code(S)
        old == Store_get_func_code(st)
    IN  IF ~old.found
        THEN [st |-> Store_save_func_code(old.st, cur.func_code, cur.first_line),
              same |-> FALSE, check |-> "baseline", diags |-> <<>>]
        ELSE IF old.func_code = cur.func_code
        THEN [st |-> old.st, same |-> TRUE, check |-> "unchanged", diags |-> <<>>]
        ELSE LET d1 == IF old.first_line = -1 \/ cur.first_line = -1
                       THEN <<WARN_CANNOT_DETECT>> ELSE <<>>
                 d2 == collision_check(S, cur, old)
                 c == Store_clear(old.st, S)
             IN  [st |-> c.st, same |-> FALSE, check |-> "changed",
                  diags |-> d1 \o d2 \o c.diags]

\* Store._is_same_func run by a process whose source of f is S.
\* check: "baseline" (no record yet), "unchanged" or "changed"
_is_same_func(st, S) ==
    LET cur == get_func_code(S)
        old == Store_get_func_code(st)
    IN  IF ~old.found
        THEN [st |-> Store_save_func_code(old.st, cur.func_code, cur.first_line),
              same |-> FALSE, check |-> "baseline", diags |-> <<>>]
        ELSE IF old.func_code = cur.func_code
        THEN [st |-> old.st, same |-> TRUE, check |-> "unchanged", diags |-> <<>>]
        ELSE LET d1 == IF old.first_line = cur.first_line /\ cur.first_line = -1
                       THEN <<WARN_CANNOT_DETECT>> ELSE <<>>
                 d2 == collision_check(S, cur, old)
                 c == Store_clear(old.st, S)
             IN  [st |-> c.st, same |-> FALSE, check |-> "changed",
                  diags |-> d1 \o d2 \o c.diags]

\* mutant: the entry is tested first and the identity check runs only when
\* the entry is there
DiskStore_exists_entry_first(st, a, S) ==
    LET st1 == DiskStore_get_output_dir(st)
        r == _is_same_func(st1, S)
    IN  IF st1.out[hash(a)].dir
        THEN [st |-> r.st, check |-> r.check, diags |-> r.diags,
              ret |-> r.same /\ r.st.out[hash(a)].dir]
        ELSE [st |-> st1, check |-> "-", diags |-> <<>>, ret |-> FALSE]

DiskStore_exists(st, a, S) ==
    LET st1 == DiskStore_get_output_dir(st)
        r == _is_same_func(st1, S)
    IN  [st |-> r.st, check |-> r.check, diags |-> r.diags,
         ret |-> r.same /\ r.st.out[hash(a)].dir]

MongoDBStore_exists(st, a, S) ==
    LET r == _is_same_func(st, S)
    IN  [st |-> r.st, check |-> r.check, diags |-> r.diags,
         ret |-> r.same /\ fs_exists(r.st.json[hash(a)])]

Store_exists(st, a, S) ==
    IF backend = "disk" THEN DiskStore_exists(st, a, S)
    ELSE MongoDBStore_exists(st, a, S)

\* how a returned bool is recorded
Bool(b) == IF b THEN "True" ELSE "False"

-----------------------------------------------------------------------------
(* What a state of the store holds *)

\* the persisted SourceRecord
SourceRecord(st) ==
    LET r == Store_get_func_code(st)
    IN  [found |-> r.found, func_code |-> r.func_code, first_line |-> r.first_line]

\* the SourceRecord a process running version S writes
RecordOf(S) ==
    [found |-> TRUE, func_code |-> get_func_code(S).func_code,
     first_line |-> get_func_code(S).first_line]

\* the payload of a's entry is stored
PayloadPresent(st, a) ==
    IF backend = "disk" THEN st.out[hash(a)].pkl # Absent
    ELSE st.pkl[hash(a)] # <<>>

\* nothing of a's entry is stored
EntryAbsent(st, a) ==
    IF backend = "disk" THEN st.out[hash(a)] = NoOutput
    ELSE st.pkl[hash(a)] = <<>> /\ st.json[hash(a)] = <<>>

\* everything stored for a's entry
EntryOf(st, a) ==
    IF backend = "disk" THEN st.out[hash(a)]
    ELSE <<st.pkl[hash(a)], st.json[hash(a)]>>

\* the value a get of a would load (Absent when there is no payload)
Payload(st, a) ==
    IF backend = "disk" THEN st.out[hash(a)].pkl
    ELSE IF fs_exists(st.pkl[hash(a)]) THEN fs_get_last_version(st.pkl[hash(a)])
    ELSE Absent

\* all the entries of the namespace
Entries(st) == IF backend = "disk" THEN st.out ELSE <<st.pkl, st.json>>

-----------------------------------------------------------------------------
(* The calls.  last records the call just made:                            *)
(*   proc, op, arg, val   who called what with which argument and value    *)
(*   ret, exc             the value returned, the exception raised         *)
(*   check, diags         the identity check's outcome and the warnings    *)
(*   present              exists only: the payload asked for was stored    *)
(*                        when the call began                              *)
(*   pfault, sfault       the I/O faults the call met                      *)
(*   func                 the function whose store was called, where       *)
(*                        several functions are cached                     *)

Call0 == [proc |-> "-", func |-> "-", op |-> "init", arg |-> "-", val |-> "-",
          ret |-> "-",
          exc |-> "none", check |-> "-", diags |-> <<>>, present |-> FALSE,
          pfault |-> "none", sfault |-> "none"]

\* f's versions stay bounded in GridFS
CanPut(a) ==
    IF backend = "disk" THEN TRUE ELSE Len(store.pkl[hash(a)]) < MaxVersions

exists(p, a) ==
    LET r == Store_exists(store, a, src[p])
    IN  /\ store' = r.st
        /\ last' = [Call0 EXCEPT !.proc = p, !.op = "exists", !.arg = a,
                                 !.ret = Bool(r.ret), !.check = r.check,
                                 !.diags = r.diags,
                                 !.present = PayloadPresent(store, a)]
        /\ UNCHANGED <<backend, json, src>>

get(p, a) ==
    LET r == Store_get(store, a)
    IN  /\ store' = r.st
        /\ last' = [Call0 EXCEPT !.proc = p, !.op = "get", !.arg = a,
                                 !.ret = r.ret, !.exc = r.exc]
        /\ UNCHANGED <<backend, json, src>>

set_with(p, a, v, pfault, sfault) ==
    LET r == Store_set(store, v, a, pfault, sfault)
    IN  /\ CanPut(a)
        /\ store' = r.st
        /\ last' = [Call0 EXCEPT !.proc = p, !.op = "set", !.arg = a, !.val = v,
                                 !.ret = r.ret, !.exc = r.exc,
                                 !.pfault = pfault, !.sfault = sfault]
        /\ UNCHANGED <<backend, json, src>>

set(p, a, v) == set_with(p, a, v, "none", "none")

delete(p, a) ==
    LET r == Store_delete(store, a)
    IN  /\ store' = r.st
        /\ last' = [Call0 EXCEPT !.proc = p, !.op = "delete", !.arg = a,
                                 !.ret = r.ret, !.exc = r.exc]
        /\ UNCHANGED <<backend, json, src>>

clear(p) ==
    LET r == Store_clear(store, src[p])
    IN  /\ store' = r.st
        /\ last' = [Call0 EXCEPT !.proc = p, !.op = "clear", !.ret = "None",
                                 !.diags = r.diags]
        /\ UNCHANGED <<backend, json, src>>

\* process p picks up another version of f's source (the file was edited and
\* the module loaded again)
edit(p, S) ==
    /\ S # src[p]
    /\ src' = [src EXCEPT ![p] = S]
    /\ last' = [Call0 EXCEPT !.proc = p, !.op = "edit"]
    /\ UNCHANGED <<backend, json, store>>

\* one process's position when it is in no call
Idle == [at |-> "idle", arg |-> "-", val |-> "-", out |-> "-", exc |-> "none"]

NoScheme == [kind |-> "-", cls |-> "-", str |-> <<>>]
NoCfg == [input |-> NoScheme, stage |-> "unused", result |-> "-",
          cls |-> "-", uri |-> <<>>, exc |-> "none"]
NoText == [func_code |-> <<>>, first_line |-> -1, stage |-> "unused",
           how |-> "-", file |-> <<>>, old_func_code |-> <<>>,
           old_first_line |-> -1, exc |-> "none"]

RestInit ==
    /\ cfg = NoCfg
    /\ pc = [p \in Procs |-> Idle]
    /\ txt = NoText

-----------------------------------------------------------------------------
(* Spec: processes sharing one store, no I/O fault, json available *)

Init ==
    /\ backend \in {"disk", "mongodb"}
    /\ json = TRUE
    /\ store = Store_init(backend)
    /\ src \in [Procs -> Sources]
    /\ last = Call0
    /\ hist = <<>>
    /\ RestInit

Exists == \E p \in Procs, a \in Args : exists(p, a) /\ UNCHANGED <<hist, rest>>
Get == \E p \in Procs, a \in Args : get(p, a) /\ UNCHANGED <<hist, rest>>
Set == \E p \in Procs, a \in Args, v \in Values : set(p, a, v) /\ UNCHANGED <<hist, rest>>
Delete == \E p \in Procs, a \in Args : delete(p, a) /\ UNCHANGED <<hist, rest>>
Clear == \E p \in Procs : clear(p) /\ UNCHANGED <<hist, rest>>
Edit == \E p \in Procs, S \in Sources : edit(p, S) /\ UNCHANGED <<hist, rest>>

Next == Exists \/ Get \/ Set \/ Delete \/ Clear \/ Edit

Spec == Init /\ [][Next]_vars

-----------------------------------------------------------------------------
(* SpecFault: one process on a machine where the json module may be        *)
(* missing and where a set may meet an I/O fault while it writes the       *)
(* payload or the summary                                                  *)

FaultProc == "p1"

InitFault ==
    /\ backend \in {"disk", "mongodb"}
    /\ json \in BOOLEAN
    /\ store = Store_init(backend)
    /\ src \in [Procs -> Sources]
    /\ \A p \in Procs : src[p] = src[FaultProc]
    /\ last = Call0
    /\ hist = <<>>
    /\ RestInit

PayloadFaults == IF backend = "disk" THEN {"OSError", "IOError"} ELSE {"IOError"}

FExists == \E a \in Args : exists(FaultProc, a) /\ UNCHANGED <<hist, rest>>
FGet == \E a \in Args : get(FaultProc, a) /\ UNCHANGED <<hist, rest>>
FSet == \E a \in Args, v \in Values : set(FaultProc, a, v) /\ UNCHANGED <<hist, rest>>
FDelete == \E a \in Args : delete(FaultProc, a) /\ UNCHANGED <<hist, rest>>
FClear == clear(FaultProc) /\ UNCHANGED <<hist, rest>>
FEdit == \E S \in Sources : edit(FaultProc, S) /\ UNCHANGED <<hist, rest>>

SetPayloadFault ==
    \E a \in Args, v \in Values, pf \in PayloadFaults :
        set_with(FaultProc, a, v, pf, "none") /\ UNCHANGED <<hist, rest>>

SetSummaryFault ==
    \E a \in Args, v \in Values, pf \in PayloadFaults \cup {"none"} :
        set_with(FaultProc, a, v, pf, "error") /\ UNCHANGED <<hist, rest>>

NextFault ==
    FExists \/ FGet \/ FSet \/ FDelete \/ FClear \/ FEdit
        \/ SetPayloadFault \/ SetSummaryFault

SpecFault == InitFault /\ [][NextFault]_vars

-----------------------------------------------------------------------------
(* SpecMemo: the store as MemorizedFunc fills it.  MemorizedFunc.call runs *)
(* the caller's version of f and hands the output to set.                  *)

\* self.func(*args, **kwargs): what the body of version S returns
func_output(S, a) ==
    IF get_func_code(S).func_code = get_func_code(SrcA).func_code
    THEN "v1" ELSE "v2"

call(p, a) == set(p, a, func_output(src[p], a))

Call == \E p \in Procs, a \in Args : call(p, a) /\ UNCHANGED <<hist, rest>>

NextMemo == Exists \/ Get \/ Call \/ Delete \/ Clear \/ Edit

SpecMemo == Init /\ [][NextMemo]_vars

-----------------------------------------------------------------------------
(* SpecTrace: one process, whose source does not change, calls exists,     *)
(* get, set and delete on one argument tuple, starting from a fresh store; *)
(* hist records the calls.                                                 *)

TraceProc == "p1"
TraceArg == "A"

InitTrace == Init /\ src = [p \in Procs |-> SrcA]

Record ==
    /\ Len(hist) < MaxTrace
    /\ hist' = Append(hist, last')
    /\ UNCHANGED rest

TExists == exists(TraceProc, TraceArg) /\ Record
TGet == get(TraceProc, TraceArg) /\ Record
TSet == \E v \in Values : set(TraceProc, TraceArg, v) /\ Record
TDelete == delete(TraceProc, TraceArg) /\ Record

NextTrace == TExists \/ TGet \/ TSet \/ TDelete

SpecTrace == InitTrace /\ [][NextTrace]_vars

-----------------------------------------------------------------------------
(* SpecClear: one process calls exists, set and clear, and its source may  *)
(* change between calls; hist records the calls.                           *)

ClearProc == "p1"
ClearValue == "v1"

InitClear == Init /\ src = [p \in Procs |-> SrcA]

RecordClear ==
    /\ Len(hist) < MaxClearTrace
    /\ hist' = Append(hist, last')
    /\ UNCHANGED rest

CExists == \E a \in Args : exists(ClearProc, a) /\ RecordClear
CSet == \E a \in Args : set(ClearProc, a, ClearValue) /\ RecordClear
CClear == clear(ClearProc) /\ RecordClear
CEdit == \E S \in Sources : edit(ClearProc, S) /\ RecordClear

NextClear == CExists \/ CSet \/ CClear \/ CEdit

SpecClear == InitClear /\ [][NextClear]_vars

-----------------------------------------------------------------------------
(* SpecMulti: three functions cached through one scheme configuration.     *)
(* store[k] is what the backend keeps under key k: on disk k is the path   *)
(* of a function directory below cachedir/joblib, in MongoDB it is the     *)
(* pair (module[0], name) that names the collection and prefixes every     *)
(* file name.                                                              *)

FuncIds == {"f", "g", "h"}
MultiArg == "A"
MultiValue == "v1"
MultiSources == {SrcA, SrcB}

\* func_inspect.get_func_name(func): (module path segments, name)
\*   f is pkg.f; g is pkg.f.g, so that f's path is a prefix of g's; h is
\*   pkg.mod.f, which shares its first module segment and its name with f
get_func_name(fn) ==
    CASE fn = "f" -> [module |-> <<"pkg">>, name |-> "f"]
      [] fn = "g" -> [module |-> <<"pkg", "f">>, name |-> "g"]
      [] fn = "h" -> [module |-> <<"pkg", "mod">>, name |-> "f"]

\* DiskStore._get_func_dir: os.path.join(self.cachedir, *(module + [name]))
func_dir_path(fn) == get_func_name(fn).module \o <<get_func_name(fn).name>>

\* MongoDBStore: '%s.%s' % (module[0], name) and '%s/%s/...' % (module, name)
func_col(fn) == <<get_func_name(fn).module[1], get_func_name(fn).name>>

Key(fn) == IF backend = "disk" THEN func_dir_path(fn) ELSE func_col(fn)

Keys == {Key(fn) : fn \in FuncIds}

\* directory p is an ancestor of directory q
IsProperPrefix(p, q) == Len(p) < Len(q) /\ SubSeq(q, 1, Len(p)) = p

\* The whole store after the store object of fn turned what is under its
\* key into ns1.  On disk, a clear that found the function directory removed
\* it with everything below it (shutil.rmtree), and mkdirp of a function
\* directory creates its ancestors.
MStore_apply(all, fn, ns1, cleared) ==
    [k \in Keys |->
        IF k = Key(fn) THEN ns1
        ELSE IF backend # "disk" THEN all[k]
        ELSE IF cleared /\ all[Key(fn)].func_dir /\ IsProperPrefix(Key(fn), k)
        THEN DiskStore_init
        ELSE IF ns1.func_dir /\ IsProperPrefix(k, Key(fn))
        THEN [all[k] EXCEPT !.func_dir = TRUE]
        ELSE all[k]]

MCanPut(fn, a) ==
    IF backend = "disk" THEN TRUE
    ELSE Len(store[Key(fn)].pkl[hash(a)]) < MaxVersions

m_exists(fn, a) ==
    LET r == Store_exists(store[Key(fn)], a, src[fn])
    IN  /\ store' = MStore_apply(store, fn, r.st, r.check = "changed")
        /\ last' = [Call0 EXCEPT !.func = fn, !.op = "exists", !.arg = a,
                                 !.ret = Bool(r.ret), !.check = r.check,
                                 !.diags = r.diags]
        /\ UNCHANGED <<backend, json, src, hist, rest>>

m_set(fn, a, v) ==
    LET r == Store_set(store[Key(fn)], v, a, "none", "none")
    IN  /\ MCanPut(fn, a)
        /\ store' = MStore_apply(store, fn, r.st, FALSE)
        /\ last' = [Call0 EXCEPT !.func = fn, !.op = "set", !.arg = a, !.val = v,
                                 !.ret = r.ret, !.exc = r.exc]
        /\ UNCHANGED <<backend, json, src, hist, rest>>

m_delete(fn, a) ==
    LET r == Store_delete(store[Key(fn)], a)
    IN  /\ store' = MStore_apply(store, fn, r.st, FALSE)
        /\ last' = [Call0 EXCEPT !.func = fn, !.op = "delete", !.arg = a,
                                 !.ret = r.ret, !.exc = r.exc]
        /\ UNCHANGED <<backend, json, src, hist, rest>>

m_clear(fn) ==
    LET r == Store_clear(store[Key(fn)], src[fn])
    IN  /\ store' = MStore_apply(store, fn, r.st, TRUE)
        /\ last' = [Call0 EXCEPT !.func = fn, !.op = "clear", !.ret = "None"]
        /\ UNCHANGED <<backend, json, src, hist, rest>>

\* disk.rm_subdirs(self.cachedir): every directory below cachedir/joblib goes
rm_subdirs(all) == [k \in Keys |-> DiskStore_init]

DiskStore_reset_all(all) == [st |-> rm_subdirs(all), ret |-> "None", exc |-> "none"]

\* self.mongo.drop(self.dbname): no attribute mongo is ever set on the store
MongoDBStore_reset_all(all) == [st |-> all, ret |-> "-", exc |-> "AttributeError"]

Store_reset_all(all) ==
    IF backend = "disk" THEN DiskStore_reset_all(all) ELSE MongoDBStore_reset_all(all)

m_reset_all(fn) ==
    LET r == Store_reset_all(store)
    IN  /\ store' = r.st
        /\ last' = [Call0 EXCEPT !.func = fn, !.op = "reset_all",
                                 !.ret = r.ret, !.exc = r.exc]
        /\ UNCHANGED <<backend, json, src, hist, rest>>

m_edit(fn, S) ==
    /\ S # src[fn]
    /\ src' = [src EXCEPT ![fn] = S]
    /\ last' = [Call0 EXCEPT !.func = fn, !.op = "edit"]
    /\ UNCHANGED <<backend, json, store, hist, rest>>

InitMulti ==
    /\ backend \in {"disk", "mongodb"}
    /\ json = TRUE
    /\ store = [k \in Keys |-> Store_init(backend)]
    /\ src = [fn \in FuncIds |-> SrcA]
    /\ last = Call0
    /\ hist = <<>>
    /\ RestInit

MExists == \E fn \in FuncIds : m_exists(fn, MultiArg)
MSet == \E fn \in FuncIds : m_set(fn, MultiArg, MultiValue)
MDelete == \E fn \in FuncIds : m_delete(fn, MultiArg)
MClear == \E fn \in FuncIds : m_clear(fn)
MResetAll == \E fn \in FuncIds : m_reset_all(fn)
MEdit == \E fn \in FuncIds, S \in MultiSources : m_edit(fn, S)

NextMulti == MExists \/ MSet \/ MDelete \/ MClear \/ MResetAll \/ MEdit

SpecMulti == InitMulti /\ [][NextMulti]_vars

\* what the store holds for function fn: its SourceRecord file and entries
NamespaceOf(all, fn) ==
    IF backend = "disk"
    THEN <<all[Key(fn)].func_code, all[Key(fn)].out>>
    ELSE <<all[Key(fn)].code, all[Key(fn)].pkl, all[Key(fn)].json>>

\* nothing is stored for fn: no entry and no SourceRecord
NamespaceEmpty(all, fn) ==
    NamespaceOf(all, fn) = IF backend = "disk"
                           THEN <<DiskStore_init.func_code, DiskStore_init.out>>
                           ELSE <<<<>>, MongoDBStore_init.pkl, MongoDBStore_init.json>>

-----------------------------------------------------------------------------
(* SpecScheme: store_from_scheme turns a scheme into a factory, and the    *)
(* factory is then called with the function to build the store.  A scheme  *)
(* string is the sequence of its tokens: words, ":" and "/".               *)

\* s.split(sep): the pieces of s between the occurrences of sep
RECURSIVE split(_, _)
split(s, sep) ==
    IF \A i \in 1..Len(s) : s[i] # sep
    THEN <<s>>
    ELSE LET i == CHOOSE i \in 1..Len(s) :
                      s[i] = sep /\ \A j \in 1..(i - 1) : s[j] # sep
         IN  <<SubSeq(s, 1, i - 1)>> \o split(SubSeq(s, i + 1, Len(s)), sep)

\* int(s) succeeds
is_int(s) == s = <<"27017">>

\* the keys of the registry: '' and 'mongodb'
schemes(tag) ==
    CASE tag = <<>> -> "DiskStore"
      [] tag = <<"mongodb">> -> "MongoDBStore"
      [] OTHER -> "KeyError"

\* scheme strings: an optional tag, ":", "//", host, port and database parts
SchemeStrings ==
    {tag \o colon \o slashes \o host \o port \o db :
        tag \in {<<>>, <<"mongodb">>, <<"ftp">>},
        colon \in {<<>>, <<":">>},
        slashes \in {<<>>, <<"/", "/">>},
        host \in {<<>>, <<"host">>},
        port \in {<<>>, <<":", "27017">>, <<":", "x">>},
        db \in {<<>>, <<"/", "db">>, <<"/", "db", "/", "x">>}}

\* what store_from_scheme may be handed: a string, a (constructor, argument)
\* descriptor, or something that is neither (None)
SchemeInputs ==
    {[kind |-> "str", cls |-> "-", str |-> u] : u \in SchemeStrings}
        \cup {[kind |-> "descriptor", cls |-> c, str |-> u] :
                 c \in {"DiskStore", "MongoDBStore"}, u \in SchemeStrings}
        \cup {[kind |-> "None", cls |-> "-", str |-> <<>>]}

\* result: "factory" (a functools.partial of cls and uri), "None" (the
\* function ran off its end) or "-" (it raised exc)
store_from_scheme(store_scheme) ==
    IF store_scheme.kind = "descriptor"
    THEN [result |-> "factory", cls |-> store_scheme.cls,
          uri |-> store_scheme.str, exc |-> "none"]
    ELSE IF store_scheme.kind = "str"
    THEN LET scheme == split(store_scheme.str, ":")[1]
         IN  IF schemes(scheme) = "KeyError"
             THEN [result |-> "-", cls |-> "-", uri |-> <<>>, exc |-> "KeyError"]
             ELSE [result |-> "factory", cls |-> schemes(scheme),
                   uri |-> store_scheme.str, exc |-> "none"]
    ELSE [result |-> "None", cls |-> "-", uri |-> <<>>, exc |-> "none"]

\* _, cachedir = cachedir.split(':')
DiskStore_new(cachedir) ==
    IF Len(split(cachedir, ":")) = 2 THEN "none" ELSE "ValueError"

\* server, database = uri.split('/')[2:]; host, port = server.split(':');
\* int(port)
MongoDBStore_new(uri) ==
    LET parts == PySlice(split(uri, "/"), 2, Len(split(uri, "/")))
    IN  IF Len(parts) # 2 THEN "ValueError"
        ELSE IF Len(split(parts[1], ":")) # 2 THEN "ValueError"
        ELSE IF ~is_int(split(parts[1], ":")[2]) THEN "ValueError"
        ELSE "none"

\* the factory called with the function: the exception __init__ raises
factory_call(cls, uri) ==
    IF cls = "DiskStore" THEN DiskStore_new(uri) ELSE MongoDBStore_new(uri)

InitScheme ==
    /\ backend = "disk"
    /\ json = TRUE
    /\ store = Store_init(backend)
    /\ src = [p \in Procs |-> SrcA]
    /\ last = Call0
    /\ hist = <<>>
    /\ cfg \in {[NoCfg EXCEPT !.input = i, !.stage = "given"] : i \in SchemeInputs}
    /\ pc = [p \in Procs |-> Idle]
    /\ txt = NoText

Build ==
    /\ cfg.stage = "given"
    /\ LET r == store_from_scheme(cfg.input)
       IN  cfg' = [cfg EXCEPT !.stage = "built", !.result = r.result,
                              !.cls = r.cls, !.uri = r.uri, !.exc = r.exc]
    /\ UNCHANGED <<backend, json, store, src, last, hist, pc, txt>>

Bind ==
    /\ cfg.stage = "built" /\ cfg.result = "factory"
    /\ cfg' = [cfg EXCEPT !.stage = "bound", !.exc = factory_call(cfg.cls, cfg.uri)]
    /\ UNCHANGED <<backend, json, store, src, last, hist, pc, txt>>

NextScheme == Build \/ Bind

SpecScheme == InitScheme /\ [][NextScheme]_vars

-----------------------------------------------------------------------------
(* MemorizedFunc.__call__, one store call per step.  pc[p].at is the call  *)
(* process p makes next: "get" after exists returned True, "call" after it *)
(* returned False, "delete" after get raised; "done" when __call__ has     *)
(* returned pc[p].out or raised pc[p].exc.                                 *)

\* mutant: the outcome of exists is ignored and the function is called
mf_begin_always_miss(p, a) ==
    /\ pc[p].at \in {"idle", "done"}
    /\ exists(p, a)
    /\ pc' = [pc EXCEPT ![p] = [Idle EXCEPT !.arg = a, !.at = "call"]]

\* if not self.cache.exists(*args, **kwargs): ... else: ...
mf_begin(p, a) ==
    /\ pc[p].at \in {"idle", "done"}
    /\ exists(p, a)
    /\ pc' = [pc EXCEPT ![p] = [Idle EXCEPT !.arg = a,
                   !.at = IF last'.ret = "True" THEN "get" ELSE "call"]]

\* out = self.cache.get(*args, **kwargs); return out -- except Exception:
mf_get(p) ==
    /\ pc[p].at = "get"
    /\ get(p, pc[p].arg)
    /\ pc' = [pc EXCEPT ![p] = IF last'.exc = "none"
                                THEN [@ EXCEPT !.at = "done", !.out = last'.ret]
                                ELSE [@ EXCEPT !.at = "delete"]]

\* self.cache.delete(*args, **kwargs), inside the except clause
mf_delete(p) ==
    /\ pc[p].at = "delete"
    /\ delete(p, pc[p].arg)
    /\ pc' = [pc EXCEPT ![p] = IF last'.exc = "none"
                                THEN [@ EXCEPT !.at = "call"]
                                ELSE [@ EXCEPT !.at = "done", !.exc = last'.exc]]

\* return self.call(*args, **kwargs)
mf_call(p) ==
    /\ pc[p].at = "call"
    /\ call(p, pc[p].arg)
    /\ pc' = [pc EXCEPT ![p] = [@ EXCEPT !.at = "done", !.out = last'.val]]

-----------------------------------------------------------------------------
(* SpecWrapOne: one process calls the memoized function again and again;   *)
(* its source does not change and nothing else touches the store.  hist    *)
(* records the store calls.                                                *)

WrapProc == "p1"

InitWrapOne == Init /\ src[WrapProc] \in Sources /\ src["p2"] = SrcA

RecordWrap ==
    /\ Len(hist) < MaxTrace
    /\ hist' = Append(hist, last')
    /\ UNCHANGED <<cfg, txt>>

WBegin == \E a \in Args : mf_begin(WrapProc, a) /\ RecordWrap
WGet == mf_get(WrapProc) /\ RecordWrap
WCall == mf_call(WrapProc) /\ RecordWrap

\* the except clause is not among the steps: alone on the store, no get of
\* this process raises (C17 states it)
NextWrapOne == WBegin \/ WGet \/ WCall

SpecWrapOne == InitWrapOne /\ [][NextWrapOne]_vars

-----------------------------------------------------------------------------
(* SpecWrap: two processes call the memoized function with the same        *)
(* argument; between two of their store calls the other process may make   *)
(* its own, clear the cache, or pick up another source and so invalidate   *)
(* it with its next exists.                                                *)

WrapArg == "A"
WrapSources == {SrcA, SrcB}

InitWrap == Init /\ src = [p \in Procs |-> SrcA]

PBegin == \E p \in Procs : mf_begin(p, WrapArg) /\ UNCHANGED <<hist, cfg, txt>>
PGet == \E p \in Procs : mf_get(p) /\ UNCHANGED <<hist, cfg, txt>>
PDelete == \E p \in Procs : mf_delete(p) /\ UNCHANGED <<hist, cfg, txt>>
PCall == \E p \in Procs : mf_call(p) /\ UNCHANGED <<hist, cfg, txt>>

PClear ==
    \E p \in Procs :
        /\ pc[p].at \in {"idle", "done"}
        /\ clear(p)
        /\ UNCHANGED <<hist, rest>>

PEdit ==
    \E p \in Procs, S \in WrapSources :
        /\ pc[p].at \in {"idle", "done"}
        /\ edit(p, S)
        /\ UNCHANGED <<hist, rest>>

NextWrap == PBegin \/ PGet \/ PDelete \/ PCall \/ PClear \/ PEdit

SpecWrap == InitWrap /\ [][NextWrap]_vars

-----------------------------------------------------------------------------
(* SpecRace: two processes run DiskStore.set for the same argument and the *)
(* same value, one file-system call per step.  pc[p].at is the step        *)
(* process p takes next:                                                   *)
(*   "mkdirp"    mkdirp(dir) of _persist_output                            *)
(*   "open"      the dump opens output.pkl for writing, which empties it   *)
(*   "dump"      the dump writes the pickle and closes the file            *)
(*   "mkdirp2"   mkdirp(output_dir) of _persist_input                      *)
(*   "summary"   json.dump into input_args.json; set returns               *)

\* the root holds nothing, or an entry a set stored earlier
RaceStores ==
    {DiskStore_init, DiskStore_set(DiskStore_init, "v2", "A", "none", "none").st}

\* output_dir, argument_hash = self.get_output_dir(*args, **kwargs)
r_start(p, a, v) ==
    /\ pc[p].at \in {"idle", "done"}
    /\ \A q \in Procs : pc[q].at # "idle" => (pc[q].arg = a /\ pc[q].val = v)
    /\ store' = DiskStore_get_output_dir(store)
    /\ pc' = [pc EXCEPT ![p] = [Idle EXCEPT !.at = "mkdirp", !.arg = a, !.val = v]]
    /\ UNCHANGED last

r_mkdirp(p) ==
    /\ pc[p].at = "mkdirp"
    /\ store' = mkdirp_output_dir(store, hash(pc[p].arg))
    /\ pc' = [pc EXCEPT ![p].at = "open"]
    /\ UNCHANGED last

r_open(p) ==
    /\ pc[p].at = "open"
    /\ store' = [store EXCEPT !.out[hash(pc[p].arg)].pkl = Truncated]
    /\ pc' = [pc EXCEPT ![p].at = "dump"]
    /\ UNCHANGED last

\* mutant: the file is closed with nothing written
r_dump_nothing(p) ==
    /\ pc[p].at = "dump"
    /\ pc' = [pc EXCEPT ![p].at = "mkdirp2"]
    /\ UNCHANGED <<store, last>>

r_dump(p) ==
    /\ pc[p].at = "dump"
    /\ store' = [store EXCEPT !.out[hash(pc[p].arg)].pkl = pc[p].val]
    /\ pc' = [pc EXCEPT ![p].at = "mkdirp2"]
    /\ UNCHANGED last

r_mkdirp2(p) ==
    /\ pc[p].at = "mkdirp2"
    /\ store' = IF json THEN mkdirp_output_dir(store, hash(pc[p].arg)) ELSE store
    /\ pc' = [pc EXCEPT ![p].at = "summary"]
    /\ UNCHANGED last

r_summary(p) ==
    /\ pc[p].at = "summary"
    /\ store' = IF json
                THEN [store EXCEPT !.out[hash(pc[p].arg)].json = pc[p].arg]
                ELSE store
    /\ pc' = [pc EXCEPT ![p].at = "done"]
    /\ last' = [Call0 EXCEPT !.proc = p, !.op = "set", !.arg = pc[p].arg,
                             !.val = pc[p].val, !.ret = "None"]

InitRace ==
    /\ backend = "disk"
    /\ json = TRUE
    /\ store \in RaceStores
    /\ src = [p \in Procs |-> SrcA]
    /\ last = Call0
    /\ hist = <<>>
    /\ RestInit

RaceFrame == UNCHANGED <<backend, json, src, hist, cfg, txt>>

RStart == \E p \in Procs, a \in Args, v \in Values : r_start(p, a, v) /\ RaceFrame
RMkdirp == \E p \in Procs : r_mkdirp(p) /\ RaceFrame
ROpen == \E p \in Procs : r_open(p) /\ RaceFrame
RDump == \E p \in Procs : r_dump(p) /\ RaceFrame
RMkdirp2 == \E p \in Procs : r_mkdirp2(p) /\ RaceFrame
RSummary == \E p \in Procs : r_summary(p) /\ RaceFrame

NextRace == RStart \/ RMkdirp \/ ROpen \/ RDump \/ RMkdirp2 \/ RSummary

SpecRace == InitRace /\ [][NextRace]_vars

-----------------------------------------------------------------------------
(* SpecFraming: the SourceRecord framing, character by character.  A text  *)
(* is the sequence of its characters; FLT stands for the thirteen          *)
(* characters of FIRST_LINE_TEXT, which no other character here is part    *)
(* of.  _save_func_code frames a text and a first line, the file is read   *)
(* back and extract_first_line decodes it.                                 *)

FLT == "# first line:"
NL == "\n"
Digits == <<"0", "1", "2", "3", "4", "5", "6", "7", "8", "9">>

TextChars == {FLT, NL, "a", "1"}

RECURSIVE TextsOfLen(_)
TextsOfLen(n) ==
    IF n = 0 THEN {<<>>}
    ELSE {Append(t, c) : t \in TextsOfLen(n - 1), c \in TextChars}

Texts == UNION {TextsOfLen(n) : n \in 0..MaxTextLen}

FirstLineValues == {-1, 1, 12}

\* '%i' % n
RECURSIVE format_nat(_)
format_nat(n) ==
    IF n < 10 THEN <<Digits[n + 1]>>
    ELSE format_nat(n \div 10) \o <<Digits[(n % 10) + 1]>>

format_int(n) == IF n < 0 THEN <<"-">> \o format_nat(0 - n) ELSE format_nat(n)

\* '%s %i\n%s' % (FIRST_LINE_TEXT, first_line, func_code)
format_func_code(func_code, first_line) ==
    <<FLT, " ">> \o format_int(first_line) \o <<NL>> \o func_code

\* sep.join(pieces)
RECURSIVE join(_, _)
join(pieces, sep) ==
    IF pieces = <<>> THEN <<>>
    ELSE IF Len(pieces) = 1 THEN pieces[1]
    ELSE pieces[1] \o sep \o join(Tail(pieces), sep)

\* s.strip() of blanks
RECURSIVE strip(_)
strip(s) ==
    IF s # <<>> /\ s[1] = " " THEN strip(Tail(s))
    ELSE IF s # <<>> /\ s[Len(s)] = " " THEN strip(SubSeq(s, 1, Len(s) - 1))
    ELSE s

digit_value(c) == CHOOSE d \in 0..9 : Digits[d + 1] = c

RECURSIVE nat_value(_)
nat_value(ds) ==
    IF Len(ds) = 1 THEN digit_value(ds[1])
    ELSE 10 * nat_value(SubSeq(ds, 1, Len(ds) - 1)) + digit_value(ds[Len(ds)])

\* int(s): blanks around, an optional sign, then digits; ValueError otherwise
int(s) ==
    LET u == strip(s)
        signed == u # <<>> /\ u[1] \in {"-", "+"}
        ds == IF signed THEN Tail(u) ELSE u
    IN  IF ds = <<>> \/ \E i \in 1..Len(ds) : \A d \in 1..10 : Digits[d] # ds[i]
        THEN [exc |-> "ValueError", val |-> -1]
        ELSE [exc |-> "none",
              val |-> IF signed /\ u[1] = "-" THEN 0 - nat_value(ds)
                      ELSE nat_value(ds)]

\* func_code.startswith(FIRST_LINE_TEXT)
startswith_FLT(s) == s # <<>> /\ s[1] = FLT

\* mutant: the lines after the header are joined without the newlines
extract_first_line_chars_joined(s) ==
    IF startswith_FLT(s)
    THEN LET lines == split(s, NL)
             n == int(Tail(lines[1]))
         IN  [func_code |-> join(Tail(lines), <<>>), first_line |-> n.val,
              exc |-> n.exc]
    ELSE [func_code |-> s, first_line |-> -1, exc |-> "none"]

\* extract_first_line on the characters of the file
extract_first_line_chars(s) ==
    IF startswith_FLT(s)
    THEN LET lines == split(s, NL)
             n == int(Tail(lines[1]))
         IN  [func_code |-> join(Tail(lines), <<NL>>), first_line |-> n.val,
              exc |-> n.exc]
    ELSE [func_code |-> s, first_line |-> -1, exc |-> "none"]

InitFraming ==
    /\ backend = "disk"
    /\ json = TRUE
    /\ store = Store_init(backend)
    /\ src = [p \in Procs |-> SrcA]
    /\ last = Call0
    /\ hist = <<>>
    /\ cfg = NoCfg
    /\ pc = [p \in Procs |-> Idle]
    /\ txt \in {[NoText EXCEPT !.func_code = t, !.first_line = n, !.stage = "given"] :
                   t \in Texts, n \in FirstLineValues}

FramingFrame == UNCHANGED <<backend, json, store, src, last, hist, cfg, pc>>

\* _save_func_code(func_code, first_line) writes the framed text
SaveFuncCode ==
    /\ txt.stage = "given"
    /\ txt' = [txt EXCEPT !.stage = "written", !.how = "framed",
                          !.file = format_func_code(txt.func_code, txt.first_line)]
    /\ FramingFrame

\* the file holds the bare text, written without the header
WriteBare ==
    /\ txt.stage = "given"
    /\ txt' = [txt EXCEPT !.stage = "written", !.how = "bare", !.file = txt.func_code]
    /\ FramingFrame

\* _get_func_code: extract_first_line(infile.read())
GetFuncCode ==
    /\ txt.stage = "written"
    /\ LET r == extract_first_line_chars(txt.file)
       IN  txt' = [txt EXCEPT !.stage = "decoded", !.old_func_code = r.func_code,
                              !.old_first_line = r.first_line, !.exc = r.exc]
    /\ FramingFrame

NextFraming == SaveFuncCode \/ WriteBare \/ GetFuncCode

SpecFraming == InitFraming /\ [][NextFraming]_vars

-----------------------------------------------------------------------------
(* SpecRecord: two processes run exists and clear on the same function,    *)
(* one store access per step; nothing locks the store between the steps of *)
(* a call.  pc[p].at is the step process p takes next:                     *)
(*   "save"   _save_func_code of a first observation                       *)
(*   "drop"   the removal of the namespace by the clear of _is_same_func   *)
(*   "write"  _save_func_code at the end of clear                          *)
(* pc[p].val is "clear" while p runs a clear() of its own.                 *)

RecordArg == "A"
RecordValue == "v1"
RecordSources == {SrcA, SrcB}

\* how many SourceRecords the namespace keeps: func_code.py is there or not;
\* every version of <module>/<name>/func_code.py in GridFS
RecordVersions(st) ==
    IF backend = "disk" THEN (IF st.func_code = NoFile THEN 0 ELSE 1)
    ELSE Len(st.code)

\* the first half of clear: rmtree(func_dir) and mkdirp(func_dir);
\* files.drop() and chunks.drop()
Store_drop(st) ==
    IF backend = "disk"
    THEN LET st1 == DiskStore_get_func_dir(st, FALSE)
             st2 == IF st1.func_dir THEN DiskStore_init ELSE st1
         IN  [st2 EXCEPT !.func_dir = TRUE]
    ELSE MongoDBStore_init

\* the entry test of exists: os.path.exists(output_dir);
\* fs.exists({'filename': filename})
Store_has_entry(st, a) ==
    IF backend = "disk" THEN st.out[hash(a)].dir ELSE fs_exists(st.json[hash(a)])

\* exists, up to the first write of _is_same_func: the record is loaded and
\* compared, and the warnings are issued
exists_load(p, a) ==
    LET st1 == IF backend = "disk" THEN DiskStore_get_output_dir(store) ELSE store
        cur == get_func_code(src[p])
        old == Store_get_func_code(st1)
        c0 == [Call0 EXCEPT !.proc = p, !.op = "exists", !.arg = a]
    IN  /\ pc[p].at = "idle"
        /\ store' = old.st
        /\ IF ~old.found
           THEN /\ pc' = [pc EXCEPT ![p] = [Idle EXCEPT !.at = "save", !.arg = a]]
                /\ last' = [c0 EXCEPT !.op = "exists:load", !.check = "baseline"]
           ELSE IF old.func_code = cur.func_code
           THEN /\ pc' = pc
                /\ last' = [c0 EXCEPT !.ret = Bool(Store_has_entry(old.st, a)),
                                        !.check = "unchanged"]
           ELSE /\ pc' = [pc EXCEPT ![p] = [Idle EXCEPT !.at = "drop", !.arg = a]]
                /\ last' = [c0 EXCEPT !.op = "exists:load", !.check = "changed",
                               !.diags =
                                  (IF old.first_line = cur.first_line
                                      /\ cur.first_line = -1
                                   THEN <<WARN_CANNOT_DETECT>> ELSE <<>>)
                                  \o collision_check(src[p], cur, old)]
        /\ UNCHANGED <<backend, json, src>>

\* self._save_func_code(func_code, first_line); return False
exists_save(p) ==
    LET cur == get_func_code(src[p])
    IN  /\ pc[p].at = "save"
        /\ store' = Store_save_func_code(store, cur.func_code, cur.first_line)
        /\ pc' = [pc EXCEPT ![p] = Idle]
        /\ last' = [Call0 EXCEPT !.proc = p, !.op = "exists", !.arg = pc[p].arg,
                                 !.ret = "False", !.check = "baseline"]
        /\ UNCHANGED <<backend, json, src>>

\* self.clear(warn=True), its removal of the namespace
exists_drop(p) ==
    /\ pc[p].at = "drop"
    /\ store' = Store_drop(store)
    /\ pc' = [pc EXCEPT ![p] = [@ EXCEPT !.at = "write"]]
    /\ last' = [Call0 EXCEPT !.proc = p, !.op = "exists:drop", !.arg = pc[p].arg,
                             !.check = "changed"]
    /\ UNCHANGED <<backend, json, src>>

\* a clear() called on the store, its removal of the namespace
clear_drop(p) ==
    /\ pc[p].at = "idle"
    /\ store' = Store_drop(store)
    /\ pc' = [pc EXCEPT ![p] = [Idle EXCEPT !.at = "write", !.val = "clear"]]
    /\ last' = [Call0 EXCEPT !.proc = p, !.op = "clear:drop"]
    /\ UNCHANGED <<backend, json, src>>

\* the end of clear: get_func_code(self.func) and _save_func_code; then clear
\* returns, and so does the exists that called it
clear_save(p) ==
    LET cur == get_func_code(src[p])
    IN  /\ pc[p].at = "write"
        /\ store' = Store_save_func_code(store, cur.func_code, cur.first_line)
        /\ pc' = [pc EXCEPT ![p] = Idle]
        /\ last' = IF pc[p].val = "clear"
                   THEN [Call0 EXCEPT !.proc = p, !.op = "clear", !.ret = "None"]
                   ELSE [Call0 EXCEPT !.proc = p, !.op = "exists",
                                      !.arg = pc[p].arg, !.ret = "False",
                                      !.check = "changed"]
        /\ UNCHANGED <<backend, json, src>>

InitRecord == Init /\ src \in [Procs -> RecordSources]

RecLoad == \E p \in Procs : exists_load(p, RecordArg) /\ UNCHANGED <<hist, cfg, txt>>
RecSave == \E p \in Procs : exists_save(p) /\ UNCHANGED <<hist, cfg, txt>>
RecDrop == \E p \in Procs : exists_drop(p) /\ UNCHANGED <<hist, cfg, txt>>
RecClear == \E p \in Procs : clear_drop(p) /\ UNCHANGED <<hist, cfg, txt>>
RecWrite == \E p \in Procs : clear_save(p) /\ UNCHANGED <<hist, cfg, txt>>

RecSet ==
    \E p \in Procs :
        /\ pc[p].at = "idle"
        /\ set(p, RecordArg, RecordValue)
        /\ UNCHANGED <<hist, rest>>

RecEdit ==
    \E p \in Procs, S \in RecordSources :
        /\ pc[p].at = "idle"
        /\ edit(p, S)
        /\ UNCHANGED <<hist, rest>>

NextRecord ==
    RecLoad \/ RecSave \/ RecDrop \/ RecClear \/ RecWrite \/ RecSet \/ RecEdit

SpecRecord == InitRecord /\ [][NextRecord]_vars

-----------------------------------------------------------------------------
(* SpecCheck: one process calls exists, set, get and delete while the      *)
(* source of f goes through versions that differ in text, in place, in     *)
(* length and in whether the source can be read at all, so that the        *)
(* identity check meets every pair of a persisted and a current version.   *)

\* f got a third line, below an unchanged copy of SrcA's f
SrcLong == [file |-> <<"def f():", "  return a", "def f():", "  x = 1",
                       "  return b">>,
            exists |-> TRUE, first_line |-> 3, nlines |-> 3, repr |-> ""]
\* SrcA's f, unchanged, one line further down in its file
SrcMoved == [file |-> <<"import os", "def f():", "  return a">>,
             exists |-> TRUE, first_line |-> 2, nlines |-> 2, repr |-> ""]
\* functions whose source cannot be read: the code text is a repr and the
\* first line is unknown
SrcRepr1 == [file |-> <<>>, exists |-> FALSE, first_line |-> -1, nlines |-> 0,
             repr |-> "<code 1>"]
SrcRepr2 == [file |-> <<>>, exists |-> FALSE, first_line |-> -1, nlines |-> 0,
             repr |-> "<code 2>"]

\* SrcA's file is there, but f's block cannot be read out of it
SrcUnread == [file |-> <<"def f():", "  return a">>, exists |-> TRUE,
              first_line |-> -1, nlines |-> 0, repr |-> "<code 3>"]

CheckSources == Sources \cup {SrcLong, SrcMoved, SrcRepr1, SrcRepr2, SrcUnread}

CheckProc == "p1"
CheckValue == "v1"

InitCheck ==
    /\ backend \in {"disk", "mongodb"}
    /\ json = TRUE
    /\ store = Store_init(backend)
    /\ src \in [Procs -> {SrcA}]
    /\ last = Call0
    /\ hist = <<>>
    /\ RestInit

IExists == \E a \in Args : exists(CheckProc, a) /\ UNCHANGED <<hist, rest>>
ISet == \E a \in Args : set(CheckProc, a, CheckValue) /\ UNCHANGED <<hist, rest>>
IGet == \E a \in Args : get(CheckProc, a) /\ UNCHANGED <<hist, rest>>
IDelete == \E a \in Args : delete(CheckProc, a) /\ UNCHANGED <<hist, rest>>
IEdit == \E S \in CheckSources : edit(CheckProc, S) /\ UNCHANGED <<hist, rest>>

NextCheck == IExists \/ ISet \/ IGet \/ IDelete \/ IEdit

SpecCheck == InitCheck /\ [][NextCheck]_vars

\* the text of record rec stands in file S.file, from line `line` on
FileHoldsAt(S, line, rec) ==
    LET text == rstrip(rec)
    IN  /\ S.exists
        /\ line >= 1
        /\ line + Len(text) - 1 <= Len(S.file)
        /\ SubSeq(S.file, line, line + Len(text) - 1) = text

-----------------------------------------------------------------------------
(* Reading a recorded run *)

\* call number i of the run was a call of op
At(i, op) == i \in 1..Len(hist) /\ hist[i].op = op

\* an exists call was made before call number i
HadExists(i) == \E j \in 1..(i - 1) : At(j, "exists")

\* the set calls, and the delete calls that returned, before call number k
NumSets(k) == Cardinality({j \in 1..(k - 1) : At(j, "set")})
NumDeletes(k) ==
    Cardinality({j \in 1..(k - 1) : At(j, "delete") /\ hist[j].exc = "none"})

\* a set of argument a was made before call number i
HadSet(i, a) == \E j \in 1..(i - 1) : At(j, "set") /\ hist[j].arg = a

\* how often warning w is in diags
Count(diags, w) == Cardinality({i \in DOMAIN diags : diags[i] = w})

-----------------------------------------------------------------------------
(* The claims *)

\* C1 (SpecMemo): when a process gets True from exists(f, A) and its get(f, A)
\* then returns v, v was stored by a set made by a process running the same
\* source of f, that is, v is what the caller's own version of f returns.
C1_NoWrongVersion ==
    [][(/\ last.op = "exists" /\ last.ret = "True"
        /\ last'.op = "get" /\ last'.proc = last.proc /\ last'.arg = last.arg
        /\ last'.exc = "none")
       => last'.ret = func_output(src[last.proc], last.arg)]_vars

\* C2 (Spec): an exists call on a namespace without a persisted SourceRecord
\* returns False, whatever entries are present, and leaves the namespace
\* holding the SourceRecord of the caller's current source.
C2_FirstObservation ==
    [][(last'.op = "exists" /\ ~SourceRecord(store).found)
       => (/\ last'.ret = "False"
           /\ SourceRecord(store') = RecordOf(src[last'.proc]))]_vars

\* a first observation made while the entry asked for was stored
C2_Witness ==
    /\ last.op = "exists" /\ last.check = "baseline" /\ last.ret = "False"
    /\ last.present /\ PayloadPresent(store, last.arg)

\* C3 as claimed (SpecTrace): on a DiskStore at a fresh root, after set(A, v)
\* the next exists(A) returns True, get(A) returns v, and after delete(A) the
\* next exists(A) returns False.
C3_ScenarioA ==
    (backend = "disk" /\ At(1, "set") /\ At(2, "exists")) =>
        /\ hist[2].ret = "True"
        /\ At(3, "get") => hist[3].ret = hist[1].val
        /\ (At(3, "get") /\ At(4, "delete") /\ At(5, "exists"))
               => hist[5].ret = "False"

\* C3 as amended (SpecTrace): on a DiskStore, after set(A, v) the next
\* exists(A) returns True exactly if an earlier exists call has recorded the
\* SourceRecord (at a fresh root it is the first observation and returns
\* False); either way get(A) returns v, and after delete(A) the next exists(A)
\* returns False.
C3_ScenarioA_Baseline ==
    \A i \in 1..Len(hist) :
            (backend = "disk" /\ At(i, "set") /\ At(i + 1, "exists")) =>
                /\ hist[i + 1].ret = Bool(HadExists(i + 1))
                /\ At(i + 2, "get") =>
                       (hist[i + 2].exc = "none" /\ hist[i + 2].ret = hist[i].val)
                /\ (At(i + 2, "get") /\ At(i + 3, "delete") /\ At(i + 4, "exists"))
                       => hist[i + 4].ret = "False"

\* exists (baseline), set, exists = True, get, delete, exists = False
C3_Witness ==
    /\ backend = "disk"
    /\ At(1, "exists") /\ At(2, "set") /\ At(3, "exists") /\ At(4, "get")
    /\ At(5, "delete") /\ At(6, "exists")
    /\ hist[3].ret = "True" /\ hist[4].ret = hist[2].val /\ hist[6].ret = "False"

\* C4 (SpecTrace): in both backends a get that follows a set of the same
\* argument at once returns the value that set was given, also when the
\* entry held another value before.
C4_RoundTrip ==
    \A i \in 1..Len(hist) :
        (At(i, "set") /\ At(i + 1, "get")) =>
            (hist[i + 1].exc = "none" /\ hist[i + 1].ret = hist[i].val)

\* set v1, set v2, get = v2
C4_Witness ==
    \E i \in 1..Len(hist) :
        /\ At(i, "set") /\ At(i + 1, "set") /\ At(i + 2, "get")
        /\ hist[i].val = "v1" /\ hist[i + 1].val = "v2"
        /\ hist[i + 2].ret = "v2"

\* C5 (Spec): an exists call by a process whose source text differs from
\* the persisted SourceRecord returns False and leaves the namespace with
\* no entry for any argument and with the SourceRecord of the new source.
C5_Invalidation ==
    [][(/\ last'.op = "exists"
        /\ SourceRecord(store).found
        /\ SourceRecord(store).func_code
               # get_func_code(src[last'.proc]).func_code)
       => (/\ last'.ret = "False"
           /\ \A b \in Args : EntryAbsent(store', b)
           /\ SourceRecord(store') = RecordOf(src[last'.proc]))]_vars

\* an invalidation that dropped the entry asked for and also issued a
\* collision warning
C5_Witness ==
    /\ last.op = "exists" /\ last.check = "changed" /\ last.ret = "False"
    /\ last.present /\ last.diags # <<>>

\* C6 as claimed (Spec): an exists call that detects a source change and
\* clears the namespace issues exactly one cache-cleared diagnostic.
C6_OneInvalidationDiagnostic ==
    (last.op = "exists" /\ last.check = "changed")
        => Count(last.diags, WARN_CLEARING) = 1

\* C7 as claimed (SpecFault): exists(A) is True whenever the payload of A is
\* stored and the SourceRecord matches, with or without a summary, and is
\* True only if the payload of A is stored.
C7_SummaryAdvisory ==
    [][last'.op = "exists"
       => (/\ last'.ret = "True" => PayloadPresent(store', last'.arg)
           /\ (/\ PayloadPresent(store, last'.arg)
               /\ SourceRecord(store).found
               /\ SourceRecord(store).func_code
                      = get_func_code(src[last'.proc]).func_code)
                  => last'.ret = "True")]_vars

\* C8 as claimed (SpecFault): a set that returns without an exception has
\* stored the payload.
C8_SetPropagatesFailure ==
    (last.op = "set" /\ last.exc = "none") => PayloadPresent(store, last.arg)

\* C9 as claimed (Spec): a delete of an argument that has no entry raises
\* nothing and leaves the entries and the SourceRecord as they were.
C9_DeleteIdempotent ==
    [][(last'.op = "delete" /\ EntryAbsent(store, last'.arg))
       => (/\ last'.exc = "none"
           /\ Entries(store') = Entries(store)
           /\ SourceRecord(store') = SourceRecord(store))]_vars

C11_KeySeparation ==
    [][last'.op \in {"set", "delete"}
       => \A b \in Args \ {last'.arg} : EntryOf(store', b) = EntryOf(store, b)]_vars

\* a set stored a value for one argument while the other one holds another
C11_Witness ==
    /\ last.op = "set" /\ last.exc = "none"
    /\ Payload(store, last.arg) = last.val
    /\ \E b \in Args \ {last.arg} :
           PayloadPresent(store, b) /\ Payload(store, b) # last.val

\* C12 (SpecClear): when clear() has returned, the namespace holds no entry
\* for any argument and holds the SourceRecord of the caller's current
\* source; an exists made next returns False without being a first
\* observation, and a set made next is followed by exists = True.
C12_ClearPostcondition ==
    /\ last.op = "clear" =>
           /\ \A a \in Args : EntryAbsent(store, a)
           /\ SourceRecord(store) = RecordOf(src[last.proc])
    /\ \A i \in 1..Len(hist) :
           /\ (At(i, "clear") /\ At(i + 1, "exists")) =>
                  (hist[i + 1].ret = "False" /\ hist[i + 1].check = "unchanged")
           /\ (/\ At(i, "clear") /\ At(i + 1, "set") /\ At(i + 2, "exists")
               /\ hist[i + 2].arg = hist[i + 1].arg) =>
                  (hist[i + 2].ret = "True" /\ hist[i + 2].check = "unchanged")

\* set, edit, clear, set, exists = True: the clear dropped an entry stored
\* under another source and no exists call had recorded a baseline
C12_Witness ==
    /\ At(1, "set") /\ At(2, "edit") /\ At(3, "clear") /\ At(4, "set")
    /\ At(5, "exists")
    /\ hist[4].arg # hist[1].arg /\ hist[5].arg = hist[4].arg
    /\ hist[5].ret = "True" /\ EntryAbsent(store, hist[1].arg)

\* C13 as claimed (SpecMulti): in both backends reset_all raises nothing and
\* leaves no entry and no SourceRecord of any function.
C13_ResetAllUniform ==
    last.op = "reset_all" =>
        (last.exc = "none" /\ \A fn \in FuncIds : NamespaceEmpty(store, fn))

\* C14 as claimed (SpecMulti): a set, delete, clear or exists on the store of
\* one function leaves the entries and the SourceRecord of every other
\* function as they were.
C14_NamespaceIsolation ==
    [][last'.op \in {"set", "delete", "clear", "exists"}
       => \A fn \in FuncIds \ {last'.func} :
              NamespaceOf(store', fn) = NamespaceOf(store, fn)]_vars

\* C15 (Spec): in both backends a get of an argument that has no entry
\* raises a not-found error (IOError from the load, NoFile from GridFS),
\* returns no value and creates no entry; an exists of that argument made
\* next returns False.
C15_GetMissing ==
    [][/\ (last'.op = "get" /\ EntryAbsent(store, last'.arg)) =>
              /\ last'.exc \in {"IOError", "NoFile"}
              /\ last'.ret = "-"
              /\ EntryAbsent(store', last'.arg)
       /\ (/\ last.op = "get" /\ last.exc # "none"
           /\ last'.op = "exists" /\ last'.arg = last.arg) =>
              last'.ret = "False"]_vars

\* a get that raised although the SourceRecord is there and the other
\* argument has an entry
C15_Witness ==
    /\ last.op = "get" /\ last.exc # "none" /\ EntryAbsent(store, last.arg)
    /\ SourceRecord(store).found
    /\ \E b \in Args \ {last.arg} : PayloadPresent(store, b)

\* C16 as claimed (SpecScheme): store_from_scheme either raises or returns a
\* factory, and a factory it returned builds the store without a
\* configuration error: an unknown tag and a malformed URI are both
\* rejected by store_from_scheme itself.
C16_ConfigErrorsAtBuild ==
    /\ (cfg.stage = "built" /\ cfg.exc = "none") => cfg.result = "factory"
    /\ cfg.stage = "bound" => cfg.exc = "none"

\* C17 (SpecWrapOne): one process, whose source does not change, calls the
\* memoized function; nothing else touches the store.  For every argument
\* the function is evaluated (and its output set) at most once: the first
\* call finds exists False and sets the computed value; every later call
\* finds exists True and its get returns that value without raising; each
\* call returns what the process's version of f returns.
C17_HitMissFlow ==
    /\ \A a \in Args :
           Cardinality({j \in 1..Len(hist) : At(j, "set") /\ hist[j].arg = a}) <= 1
    /\ \A i \in 1..Len(hist) :
           At(i, "exists") =>
               IF HadSet(i, hist[i].arg)
               THEN /\ hist[i].ret = "True"
                    /\ i < Len(hist) =>
                           /\ At(i + 1, "get") /\ hist[i + 1].exc = "none"
                           /\ hist[i + 1].ret
                                  = func_output(src[WrapProc], hist[i].arg)
               ELSE /\ hist[i].ret = "False"
                    /\ i < Len(hist) =>
                           /\ At(i + 1, "set") /\ hist[i + 1].arg = hist[i].arg
                           /\ hist[i + 1].val
                                  = func_output(src[WrapProc], hist[i].arg)
    /\ pc[WrapProc].at = "done" =>
           /\ pc[WrapProc].exc = "none"
           /\ pc[WrapProc].out = func_output(src[WrapProc], pc[WrapProc].arg)

\* three calls with one argument: a miss that computes, then two hits
C17_Witness ==
    /\ At(1, "exists") /\ At(2, "set") /\ At(3, "exists") /\ At(4, "get")
    /\ At(5, "exists") /\ At(6, "get")
    /\ hist[1].ret = "False" /\ hist[3].ret = "True" /\ hist[5].ret = "True"
    /\ hist[6].ret = hist[2].val /\ pc[WrapProc].out = "v2"

\* C18 as claimed (SpecWrap): whatever the other process does between the
\* store calls of a MemorizedFunc call (a clear or an invalidation after
\* exists returned True), the call returns a value and raises nothing, in
\* both backends.
C18_RecoveryHidesErrors ==
    \A p \in Procs :
        pc[p].at = "done" =>
            (pc[p].exc = "none" /\ pc[p].out \in Values)

\* C19 (SpecRace): two processes run DiskStore.set(A, v) with the same A and
\* v, their file-system calls interleaved in any order.  Neither set
\* raises, and once both have returned the output directory of A exists
\* and get(A) returns v.
C19_ConcurrentSetBenign ==
    /\ \A p \in Procs : pc[p].exc = "none"
    /\ (\A p \in Procs : pc[p].at = "done") =>
           \A p \in Procs :
               /\ store.out[hash(pc[p].arg)].dir
               /\ DiskStore_get(store, pc[p].arg).exc = "none"
               /\ DiskStore_get(store, pc[p].arg).ret = pc[p].val

\* both sets have returned and the entry holds their value and summary
C19_Witness ==
    /\ \A p \in Procs : pc[p].at = "done" /\ pc[p].arg = "A" /\ pc[p].val = "v1"
    /\ store.out[hash("A")].pkl = "v1" /\ store.out[hash("A")].json = "A"
    /\ store.out[hash("B")] = NoOutput

\* C20 (SpecFraming): decoding what _save_func_code wrote for a text t and
\* a first line n gives back exactly t and n, for empty and multi-line
\* texts, texts that themselves begin with the header, and the first line
\* -1; a file that does not begin with the header decodes to its whole
\* text and the first line -1.
C20_FramingRoundTrip ==
    txt.stage = "decoded" =>
        /\ txt.how = "framed" =>
               /\ txt.exc = "none"
               /\ txt.old_func_code = txt.func_code
               /\ txt.old_first_line = txt.first_line
        /\ (txt.how = "bare" /\ ~startswith_FLT(txt.func_code)) =>
               /\ txt.exc = "none"
               /\ txt.old_func_code = txt.func_code
               /\ txt.old_first_line = -1

\* a multi-line text that begins with the header, framed with first line 12
\* and decoded
C20_Witness ==
    /\ txt.stage = "decoded" /\ txt.how = "framed"
    /\ txt.func_code = <<FLT, NL, "a">> /\ txt.first_line = 12
    /\ txt.old_func_code = <<FLT, NL, "a">> /\ txt.old_first_line = 12

\* C21 as claimed (SpecRecord): whatever exists and clear calls of the two
\* processes interleave, the namespace keeps at most one SourceRecord: no
\* second record and no second version of the record.
C21_OneSourceRecord == RecordVersions(store) <= 1

\* C22 as claimed (SpecCheck): the identity check of an exists call issues
\* the suspected-collision warning exactly when a SourceRecord is persisted,
\* its text differs from the current text, its first line differs from the
\* current first line, and the source file holds the persisted text from the
\* old first line on -- whatever the numbers of lines of the two texts.
C22_SuspectedCollision ==
    [][last'.op = "exists" =>
        LET old == SourceRecord(store)
            cur == get_func_code(src[last'.proc])
        IN  (Count(last'.diags, WARN_POSSIBLE) > 0)
            <=> (/\ old.found
                 /\ old.func_code # cur.func_code
                 /\ old.first_line # cur.first_line
                 /\ FileHoldsAt(src[last'.proc], old.first_line,
                                old.func_code))]_vars

\* C23 (SpecCheck): the identity check of an exists call issues the
\* ambiguous-identity warning exactly when a SourceRecord is persisted, its
\* text differs from the current text, and the persisted and the current
\* first line are both -1; the call then still invalidates the namespace:
\* it returns False, no entry is left and the record is the current source's.
C23_AmbiguousIdentity ==
    [][last'.op = "exists" =>
        LET old == SourceRecord(store)
            cur == get_func_code(src[last'.proc])
            warned == Count(last'.diags, WARN_CANNOT_DETECT) > 0
        IN  /\ warned <=> (/\ old.found
                           /\ old.func_code # cur.func_code
                           /\ old.first_line = -1
                           /\ cur.first_line = -1)
            /\ warned => (/\ last'.check = "changed"
                          /\ last'.ret = "False"
                          /\ \A b \in Args : EntryAbsent(store', b)
                          /\ SourceRecord(store') = RecordOf(src[last'.proc]))]_vars

\* an exists call that issued the warning and dropped the entry asked for
C23_Witness ==
    /\ last.op = "exists" /\ last.check = "changed" /\ last.present
    /\ Count(last.diags, WARN_CANNOT_DETECT) = 1
    /\ src[last.proc].first_line = -1

\* C24 (SpecClear): in a single process, when an exists call has returned,
\* True or False and whether or not the entry asked for was stored, the
\* persisted SourceRecord text is the caller's current source text; and when
\* the call found another text persisted, no entry of the namespace is left.
C24_ExistsAlwaysChecks ==
    last.op = "exists" =>
        /\ SourceRecord(store).found
        /\ SourceRecord(store).func_code
               = get_func_code(src[last.proc]).func_code
        /\ last.check = "changed" => \A b \in Args : EntryAbsent(store, b)

\* an exists(A) that found no entry for A, after the source had changed, and
\* cleared the entry that the run had set for B
C24_Witness ==
    /\ Len(hist) >= 4
    /\ LET n == Len(hist)
       IN  /\ hist[n].op = "exists" /\ hist[n].check = "changed"
           /\ ~hist[n].present
           /\ hist[n - 1].op = "edit"
           /\ hist[n - 2].op = "set" /\ hist[n - 2].arg # hist[n].arg
           /\ hist[n - 3].op = "exists"
    /\ \A b \in Args : EntryAbsent(store, b)

\* C25 (SpecCheck): a set, a get or a delete leaves the persisted
\* SourceRecord exactly as it was -- absent if it was absent, the old one if
\* the caller's source has changed since -- and runs no identity check; a
\* set stores its payload all the same.
C25_RecordUntouched ==
    [][last'.op \in {"set", "get", "delete"} =>
        /\ SourceRecord(store') = SourceRecord(store)
        /\ RecordVersions(store') = RecordVersions(store)
        /\ last'.check = "-" /\ last'.diags = <<>>
        /\ last'.op = "set" => Payload(store', last'.arg) = last'.val]_vars

\* a set made after the source changed: the entry is stored and the record
\* is still the one of another text
C25_Witness ==
    /\ last.op = "set" /\ last.exc = "none"
    /\ Payload(store, last.arg) = last.val
    /\ SourceRecord(store).found
    /\ SourceRecord(store).func_code # get_func_code(src[last.proc]).func_code

\* C26 (SpecCheck): when the persisted source text equals the caller's
\* current source text, the identity check of an exists call reports
\* "unchanged", issues no warning and leaves the whole store as it was --
\* every entry and the record, first line included -- also when the
\* persisted first line differs from the current one.
C26_UnchangedLeavesStore ==
    [][(/\ last'.op = "exists"
        /\ SourceRecord(store).found
        /\ SourceRecord(store).func_code
               = get_func_code(src[last'.proc]).func_code)
       => (/\ last'.check = "unchanged"
           /\ last'.diags = <<>>
           /\ store' = store
           /\ last'.ret = Bool(Store_has_entry(store, last'.arg)))]_vars

\* an exists call that found the entry although the function had moved to
\* another line: the record still carries the old first line
C26_Witness ==
    /\ last.op = "exists" /\ last.check = "unchanged" /\ last.ret = "True"
    /\ SourceRecord(store).first_line # src[last.proc].first_line
    /\ PayloadPresent(store, last.arg)

\* C27 (SpecCheck): one exists call issues at most one collision warning:
\* never the ambiguous-identity and the suspected-collision warning
\* together, and neither of them twice, whatever the persisted and the
\* current text and first line are.
C27_DiagnosticsExclusive ==
    last.op = "exists" =>
        Count(last.diags, WARN_CANNOT_DETECT)
            + Count(last.diags, WARN_POSSIBLE) <= 1

\* an invalidation that issued the suspected-collision warning alone
C27_Witness ==
    /\ last.op = "exists" /\ last.check = "changed"
    /\ last.diags = <<WARN_POSSIBLE>>

====
